---- MODULE Spec2Model ----
(***************************************************************************)
(* State-machine model of the FiT Discord bot: the personality-test        *)
(* session store driven by the /personality and /personality-quick slash   *)
(* commands (src/src/main.py, src/src/commands/slash_commands.py), the     *)
(* prayer extraction retry logic (src/src/prayer_extraction.py) and the    *)
(* engagement message generator (src/src/engagement/message_generator.py). *)
(***************************************************************************)
EXTENDS Integers, Sequences, FiniteSets, TLC

(***************************************************************************)
(* Bounds of the model.                                                    *)
(***************************************************************************)
\* number of distinct Discord users that issue commands
NumUsers == 2
\* number of slash-command invocations (each handler slot runs one request)
NumHandlers == 2
\* length of the full question list (all_questions)
NumFullQuestions == 2
\* length of the quick question list (dummy_questions)
NumDummyQuestions == 1

Users == 1..NumUsers
Handlers == 1..NumHandlers

VARIABLES
    sessions,      \* user_sessions: dict user_id -> UserSession (main.py:33)
    pc,            \* per handler: the await at which the coroutine is suspended
    h_user,        \* per handler: interaction.user.id
    reply,         \* per handler: which interaction.followup message was sent
    created,       \* per handler: TRUE when start_test executed line 76 (history)
    checkedAt,     \* per handler: value of removals[user] when line 64 ran (history)
    removals,      \* per user: how many times its session left the store (history)
    answered,      \* per user: the options its session has accepted so far (history)
    engineResult,  \* the value the last observed submitAnswer returned
    unprofiled,    \* the profile catalog: the codes for which no Profile exists
    \* ---- prayer extraction (prayer_extraction.py) ----
    xai_client,    \* TRUE when init_xai_client found XAI_API_KEY, FALSE when None
    p_pc,          \* position inside handle_prayer_message / extract_prayer
    message_text,  \* argument of extract_prayer
    retry_count,   \* argument of extract_prayer
    xaiCalls,      \* invocations of xai_client.chat.completions.create (history)
    callLog,       \* outcome of each invocation, in order (history)
    extracted,     \* value returned by extract_prayer
    exitLine,      \* the return statement extract_prayer left through
    saved,         \* the prayer_data dicts passed to save_prayer, in order
    \* ---- /engage and the engagement message generator ----
    api_key,       \* which key the environment holds: "claude", "xai" or "none"
    e_pc,          \* position inside engage_command / generate_engagement_message
    e_admin,       \* TRUE when interaction.user.id == ADMIN_USER_ID
    theme,         \* random.choice(self.themes)
    aiCalls,       \* invocations of the text-generation service (history)
    content,       \* raw text of the last response
    message_data,  \* dict returned by generate_engagement_message
    source,        \* "ai" or "fallback": which return statement produced it
    posted,        \* embeds sent to the engagement channel
    e_reply,       \* followup sent to the requester
    \* ---- /prayer (slash_commands.py:85-174) ----
    c_pc,          \* position inside prayer_command
    c_user,        \* interaction.user: whether it has `roles`, and their names
    queries,       \* calls of get_prayers_for_week (history)
    prayers,       \* rows returned by get_prayers_for_week
    messages,      \* the list `messages`: each message the lines it is made of
    dm_sent,       \* messages sent to the DM channel, in order
    c_reply        \* followup sent to the requester

sessVars == <<sessions, pc, h_user, reply, created, checkedAt, removals,
              answered, engineResult, unprofiled>>
prayVars == <<xai_client, p_pc, message_text, retry_count, xaiCalls, callLog,
              extracted, exitLine, saved>>
engVars == <<api_key, e_pc, e_admin, theme, aiCalls, content, message_data, source,
             posted, e_reply>>
cmdVars == <<c_pc, c_user, queries, prayers, messages, dm_sent, c_reply>>

(***************************************************************************)
(* Question catalog (opaque external data): question q offers two options, *)
(* option 1 adds one point to the first pole of the question's dimension,  *)
(* option 2 to the second pole.                                            *)
(***************************************************************************)
Dimensions == << <<"E", "I">>, <<"S", "N">>, <<"T", "F">>, <<"J", "P">> >>
Poles == {"E", "I", "S", "N", "T", "F", "J", "P"}
NumOptions == 2
ZeroScores == [p \in Poles |-> 0]
QuestionDimension(q) == ((q - 1) % 4) + 1
\* opt is 0-based, as the option-index of an option click
OptionPole(q, opt) == Dimensions[QuestionDimension(q)][opt + 1]

\* questions = dummy_questions if is_dummy else all_questions (main.py:69)
\* faulty variant: the two lists are swapped
QuestionCount_swapped(is_dummy) == IF is_dummy THEN NumFullQuestions ELSE NumDummyQuestions
QuestionCount(is_dummy) == IF is_dummy THEN NumDummyQuestions ELSE NumFullQuestions

\* session = UserSession(is_dummy=is_dummy, questions=questions) (main.py:75)
\* faulty variant: the new session already points at the second question
UserSession_startsAtOne(is_dummy) ==
    [is_dummy |-> is_dummy, current_question |-> 1, scores |-> ZeroScores]
UserSession(is_dummy) ==
    [is_dummy |-> is_dummy, current_question |-> 0, scores |-> ZeroScores]

\* `user_id in sessions` (main.py:64)
\* faulty variant: the test looks up a key that is never in the dict
HasActiveSession_wrongKey(user_id) == FALSE
HasActiveSession(user_id) == user_id \in DOMAIN sessions

\* sessions[user_id] = session, reached only when line 64 was false (main.py:64-76)
\* faulty variant: the dict is replaced by one that holds only the new session
Insert_replacesStore(user_id, session) == [u \in {user_id} |-> session]
Insert(user_id, session) ==
    [u \in DOMAIN sessions \cup {user_id} |->
        IF u = user_id THEN session ELSE sessions[u]]

\* faulty variant: the `return` of line 67 is missing
SessionsAfterStart_noReturn(user_id, is_dummy) == Insert(user_id, UserSession(is_dummy))
\* faulty variant: the insert of line 76 has not happened when the first
\* question is sent
SessionsAfterStart_noInsert(user_id, is_dummy) == sessions
\* faulty variant: a start that finds a session evicts it
SessionsAfterStart_evicts(user_id, is_dummy) ==
    IF HasActiveSession(user_id)
    THEN [u \in DOMAIN sessions \ {user_id} |-> sessions[u]]
    ELSE Insert(user_id, UserSession(is_dummy))
SessionsAfterStart(user_id, is_dummy) ==
    IF HasActiveSession(user_id) THEN sessions
    ELSE Insert(user_id, UserSession(is_dummy))

\* removing a key from the dict
Remove(user_id) == [u \in DOMAIN sessions \ {user_id} |-> sessions[u]]

(***************************************************************************)
(* Chat transport: an awaited Discord call either completes, raises        *)
(* discord.Forbidden, or raises some other exception.                      *)
(***************************************************************************)
TransportOutcomes == {"ok", "Forbidden", "Exception"}

\* the followup message chosen by the except clauses of personality_full /
\* personality_quick (slash_commands.py:41-53, 71-83)
FollowupFor(outcome) ==
    CASE outcome = "ok" -> "check_dms"
      [] outcome = "Forbidden" -> "dm_forbidden"
      [] OTHER -> "error"

\* Synchronous code holds the event loop from its call to its return: no
\* other handler, callback or resumption runs meanwhile.  extract_prayer (a
\* blocking client call with a 10 s timeout, and time.sleep(2) before the
\* retry) is called without await by handle_prayer_message (main.py:103,
\* prayer_extraction.py:59-70, 89); generate_engagement_message is called the
\* same way by engage_command (slash_commands.py:203-204).
PrayerHoldsLoop == p_pc \in {"entry", "call", "sleep", "returned"}
EngageHoldsLoop == e_pc \in {"request", "generated"}
LoopHeld == PrayerHoldsLoop \/ EngageHoldsLoop

\* no submitAnswer has returned yet
NoCode == << >>
NoResult == [owner |-> 0, kind |-> "none", index |-> 0, code |-> NoCode, answers |-> << >>,
             profile |-> "none"]

\* the catalogs considered: the complete one, and catalogs from which the
\* Profile of one code is missing
MissingSamples == {<<"E", "S", "T", "J">>, <<"I", "S", "T", "J">>}
Catalogs == {{}} \cup {{c} : c \in MissingSamples}

SessInit ==
    /\ sessions = << >>
    /\ pc = [h \in Handlers |-> "idle"]
    /\ h_user = [h \in Handlers |-> 0]
    /\ reply = [h \in Handlers |-> "none"]
    /\ created = [h \in Handlers |-> FALSE]
    /\ checkedAt = [h \in Handlers |-> -1]
    /\ removals = [u \in Users |-> 0]
    /\ answered = [u \in Users |-> << >>]
    /\ engineResult = NoResult
    /\ unprofiled \in Catalogs

\* /personality or /personality-quick is invoked by user_id; the handler runs
\* to `await interaction.response.defer` (line 28 / 58).  The two commands
\* differ only in the is_dummy they pass to start_test, which is drawn where
\* it is first read (CreateDmOk).
Invoke(h, user_id) ==
    /\ ~LoopHeld
    /\ pc[h] = "idle"
    /\ pc' = [pc EXCEPT ![h] = "defer"]
    /\ h_user' = [h_user EXCEPT ![h] = user_id]
    /\ UNCHANGED <<sessions, reply, created, checkedAt, removals, answered, engineResult>>
    /\ UNCHANGED <<unprofiled, prayVars, engVars, cmdVars>>

\* defer returned; the handler runs to `await interaction.user.create_dm()`
DeferResume(h) ==
    /\ ~LoopHeld
    /\ pc[h] = "defer"
    /\ pc' = [pc EXCEPT ![h] = "create_dm"]
    /\ UNCHANGED <<sessions, h_user, reply, created, checkedAt, removals, answered, engineResult>>
    /\ UNCHANGED <<unprofiled, prayVars, engVars, cmdVars>>

\* create_dm returned: start_test runs from line 61 to its first await, which
\* is line 66 (warning) when the user has a session and line 89 (first
\* question) otherwise; there is no await between line 64 and line 76
CreateDmOk(h, is_dummy) ==
    /\ ~LoopHeld
    /\ pc[h] = "create_dm"
    /\ sessions' = SessionsAfterStart(h_user[h], is_dummy)
    /\ pc' = [pc EXCEPT ![h] =
                IF HasActiveSession(h_user[h]) THEN "send_warning" ELSE "send_question"]
    /\ created' = [created EXCEPT ![h] = ~HasActiveSession(h_user[h])]
    /\ checkedAt' = [checkedAt EXCEPT ![h] = removals[h_user[h]]]
    /\ UNCHANGED <<h_user, reply, removals, answered, engineResult>>
    /\ UNCHANGED <<unprofiled, prayVars, engVars, cmdVars>>

\* create_dm raised: start_test is never called; the except clauses send the
\* followup (slash_commands.py:44-53)
CreateDmFails(h, outcome) ==
    /\ ~LoopHeld
    /\ pc[h] = "create_dm"
    /\ outcome # "ok"
    /\ pc' = [pc EXCEPT ![h] = "followup"]
    /\ reply' = [reply EXCEPT ![h] = FollowupFor(outcome)]
    /\ UNCHANGED <<sessions, h_user, created, checkedAt, removals, answered, engineResult>>
    /\ UNCHANGED <<unprofiled, prayVars, engVars, cmdVars>>

\* `await channel.send(...)` of start_test returned or raised (main.py:66, 89);
\* start_test returns or propagates, personality_full sends its followup
SendResume(h, outcome) ==
    /\ ~LoopHeld
    /\ pc[h] \in {"send_warning", "send_question"}
    /\ pc' = [pc EXCEPT ![h] = "followup"]
    /\ reply' = [reply EXCEPT ![h] = FollowupFor(outcome)]
    /\ UNCHANGED <<sessions, h_user, created, checkedAt, removals, answered, engineResult>>
    /\ UNCHANGED <<unprofiled, prayVars, engVars, cmdVars>>

(***************************************************************************)
(* SessionEngine.submitAnswer and abandon (the button callback of          *)
(* QuestionView, which lives in the personality package).                  *)
(***************************************************************************)
AddScore(scores, pole) == [scores EXCEPT ![pole] = @ + 1]

\* the session after the option opt of its current question was accepted
\* faulty variant: the first accepted answer advances the index and loses its
\* score
Advance_lostUpdate(s, opt) ==
    [s EXCEPT !.current_question = @ + 1,
              !.scores = IF s.current_question = 0
                         THEN @
                         ELSE AddScore(@, OptionPole(s.current_question + 1, opt))]
Advance(s, opt) ==
    [s EXCEPT !.current_question = @ + 1,
              !.scores = AddScore(@, OptionPole(s.current_question + 1, opt))]

\* the four-letter code: per dimension the pole with the larger score, and
\* the first pole of the dimension (E, S, T, J) when the two scores are equal
\* faulty variant: a tie resolves to the second pole
FinalCode_tieSecond(scores) ==
    [d \in 1..Len(Dimensions) |->
        IF scores[Dimensions[d][1]] > scores[Dimensions[d][2]]
        THEN Dimensions[d][1] ELSE Dimensions[d][2]]
FinalCode(scores) ==
    [d \in 1..Len(Dimensions) |->
        IF scores[Dimensions[d][1]] >= scores[Dimensions[d][2]]
        THEN Dimensions[d][1] ELSE Dimensions[d][2]]

\* submitAnswer for an owner without a session
\* faulty variant: the call creates a full session for the owner
NoActiveSession_creates(user_id) ==
    [owner |-> user_id, kind |-> "NoActiveSession", index |-> 0, code |-> NoCode,
     store |-> Insert(user_id, UserSession(FALSE))]
NoActiveSession(user_id) ==
    [owner |-> user_id, kind |-> "NoActiveSession", index |-> 0, code |-> NoCode,
     store |-> sessions]

\* submitAnswer with an option-index outside [0, optionCount)
\* faulty variant: the rejected click still advances the session
InvalidOption_advances(user_id) ==
    [owner |-> user_id, kind |-> "InvalidOption",
     index |-> sessions[user_id].current_question, code |-> NoCode,
     store |-> [sessions EXCEPT ![user_id].current_question =
                    IF @ + 1 < QuestionCount(sessions[user_id].is_dummy) THEN @ + 1 ELSE @]]
InvalidOption(user_id) ==
    [owner |-> user_id, kind |-> "InvalidOption",
     index |-> sessions[user_id].current_question, code |-> NoCode,
     store |-> sessions]

\* the lookup of the Profile of a final code
Lookup(code) == IF code \notin unprofiled THEN "found" ELSE "ProfileNotFound"

\* the store after the last answer: the session is removed whether or not the
\* Profile was found
\* faulty variant: ProfileNotFound aborts the call before the removal
Completed_abortsOnError(user_id, code) ==
    IF Lookup(code) = "found" THEN Remove(user_id) ELSE sessions
Completed(user_id, code) == Remove(user_id)

\* submitAnswer(owner-id, option-index): the value it returns (owner, kind,
\* index, code) and the store it leaves
Answer(user_id, opt) ==
    IF ~HasActiveSession(user_id) THEN NoActiveSession(user_id)
    ELSE IF opt \notin 0..(NumOptions - 1) THEN InvalidOption(user_id)
    ELSE LET next == Advance(sessions[user_id], opt)
         IN IF next.current_question < QuestionCount(next.is_dummy)
            THEN [owner |-> user_id, kind |-> "next-question",
                  index |-> next.current_question, code |-> NoCode,
                  store |-> [sessions EXCEPT ![user_id] = next]]
            ELSE [owner |-> user_id, kind |-> "final-result",
                  index |-> next.current_question, code |-> FinalCode(next.scores),
                  store |-> Completed(user_id, FinalCode(next.scores))]

\* an option click, as far as the start handlers are concerned: the store
\* changes as in Answer, the returned value is not kept
SubmitAnswer(user_id, opt) ==
    /\ ~LoopHeld
    /\ IF ~HasActiveSession(user_id)
       THEN UNCHANGED <<sessions, removals>>              \* NoActiveSession
       ELSE IF opt \notin 0..(NumOptions - 1)
       THEN UNCHANGED <<sessions, removals>>              \* InvalidOption
       ELSE LET next == Advance(sessions[user_id], opt)
            IN IF next.current_question < QuestionCount(next.is_dummy)
               THEN /\ sessions' = [sessions EXCEPT ![user_id] = next]
                    /\ UNCHANGED removals
               ELSE /\ sessions' = Remove(user_id)
                    /\ removals' = [removals EXCEPT ![user_id] = @ + 1]
    /\ UNCHANGED <<pc, h_user, reply, created, checkedAt, answered, engineResult>>
    /\ UNCHANGED <<unprofiled, prayVars, engVars, cmdVars>>

Abandon(user_id) ==
    /\ ~LoopHeld
    /\ UNCHANGED <<pc, h_user, reply, created, checkedAt, answered, engineResult>>
    /\ IF HasActiveSession(user_id)
       THEN /\ sessions' = Remove(user_id)
            /\ removals' = [removals EXCEPT ![user_id] = @ + 1]
       ELSE UNCHANGED <<sessions, removals>>
    /\ UNCHANGED <<unprofiled, prayVars, engVars, cmdVars>>

\* The same three operations with the returned value kept, and without the
\* bookkeeping of the slash-command handlers: start_test from its entry to its
\* first await (main.py:61-76), whoever calls it,
Start(user_id, is_dummy) ==
    /\ ~LoopHeld
    /\ sessions' = SessionsAfterStart(user_id, is_dummy)
    /\ UNCHANGED <<pc, h_user, reply, created, checkedAt, removals, answered, engineResult>>
    /\ UNCHANGED <<unprofiled, prayVars, engVars, cmdVars>>

\* an option click whose returned value is observed,
InvalidOptions == {-1, NumOptions}
Click(user_id, opt) ==
    /\ ~LoopHeld
    /\ LET r == Answer(user_id, opt)
           accepted == r.kind \in {"next-question", "final-result"}
           log == IF accepted THEN Append(answered[user_id], opt) ELSE answered[user_id]
       IN /\ sessions' = r.store
          /\ engineResult' = [owner |-> r.owner, kind |-> r.kind, index |-> r.index,
                              code |-> r.code, answers |-> log,
                              profile |-> IF r.kind = "final-result"
                                          THEN Lookup(r.code) ELSE "none"]
          /\ answered' = [answered EXCEPT ![user_id] =
                             IF r.kind = "final-result" THEN << >> ELSE log]
    /\ UNCHANGED <<pc, h_user, reply, created, checkedAt, removals>>
    /\ UNCHANGED <<unprofiled, prayVars, engVars, cmdVars>>

\* and abandon(owner-id)
Drop(user_id) ==
    /\ ~LoopHeld
    /\ sessions' = Remove(user_id)
    /\ answered' = [answered EXCEPT ![user_id] = << >>]
    /\ UNCHANGED <<pc, h_user, reply, created, checkedAt, removals, engineResult>>
    /\ UNCHANGED <<unprofiled, prayVars, engVars, cmdVars>>

(***************************************************************************)
(* Text.  A string is a sequence of one-character strings, so that         *)
(* str.strip() and str.upper() are computed and not assumed.               *)
(***************************************************************************)
Whitespace == {" ", "\n", "\t"}
LowerLetters == <<"a","b","c","d","e","f","g","h","i","j","k","l","m",
                  "n","o","p","q","r","s","t","u","v","w","x","y","z">>
UpperLetters == <<"A","B","C","D","E","F","G","H","I","J","K","L","M",
                  "N","O","P","Q","R","S","T","U","V","W","X","Y","Z">>

UpperChar(c) ==
    IF \E i \in 1..Len(LowerLetters) : LowerLetters[i] = c
    THEN UpperLetters[CHOOSE i \in 1..Len(LowerLetters) : LowerLetters[i] = c]
    ELSE c

\* str.upper()
Upper(str) == [i \in 1..Len(str) |-> UpperChar(str[i])]

RECURSIVE LStrip(_)
LStrip(str) ==
    IF str # << >> /\ Head(str) \in Whitespace THEN LStrip(Tail(str)) ELSE str

RECURSIVE RStrip(_)
RStrip(str) ==
    IF str # << >> /\ str[Len(str)] \in Whitespace
    THEN RStrip(SubSeq(str, 1, Len(str) - 1)) ELSE str

\* str.strip()
Strip(str) == RStrip(LStrip(str))

\* the sentinel of the prompt, 'NO_PRAYER' (prayer_extraction.py:53, 75)
NO_PRAYER == <<"N","O","_","P","R","A","Y","E","R">>

\* message.content values of the inbound prayer-wall messages
MessageTexts ==
    { << >>, <<" ">>, <<" ", "\n", "\t">>,
      <<"p","r","a","y">>, <<" ","h","i","\n">> }

\* completion.choices[0].message.content values the service may answer with
ResponseTexts ==
    { NO_PRAYER,
      <<"n","o","_","p","r","a","y","e","r">>,
      <<"N","o","_","P","r","a","y","e","r">>,
      <<" ","N","O","_","P","R","A","Y","E","R","\n">>,
      <<"\n","n","o","_","P","R","A","Y","E","R"," "," ">>,
      <<"N","O"," ","P","R","A","Y","E","R">>,
      <<"N","O","_","P","R","A","Y","E","R","S">>,
      << >>, <<" ">>, <<"\n"," ","\t">>,
      <<"H","e","a","l"," ","A","n","n">>,
      <<" ","H","e","a","l"," ","A","n","n","\n">>,
      <<"\t","n","o">> }

\* Python values of type `str | None`
None == [kind |-> "None", text |-> << >>]
Str(text) == [kind |-> "str", text |-> text]

\* one invocation of the service: it raises (transport error, timeout), or
\* returns a completion whose content is a string, or whose content is None
Raised == [kind |-> "raise", text |-> << >>]
CallOutcomes == {Raised, None} \cup {Str(t) : t \in ResponseTexts}

\* `retry_count < 1` (prayer_extraction.py:87)
MaxRetries == 1
\* the first call plus the retries
MaxAttempts == MaxRetries + 1

\* `not message_text or len(message_text.strip()) == 0` (prayer_extraction.py:46)
\* faulty variant: the text is not stripped before the test
IsBlank_noStrip(text) == text = << >>
IsBlank(text) == text = << >> \/ Len(Strip(text)) = 0

\* `response.upper() == "NO_PRAYER" or len(response) == 0` (prayer_extraction.py:75)
\* faulty variant: the comparison does not fold the case
IsNoPrayer_caseSensitive(response) == response = NO_PRAYER \/ Len(response) = 0
IsNoPrayer(response) == Upper(response) = NO_PRAYER \/ Len(response) = 0

\* `retry_count < 1` decides between the recursive retry and giving up
\* `except Exception` (prayer_extraction.py:82): every failure of the try block
\* is caught, the AttributeError of a None content included
\* faulty variant: only the errors of the client are caught
Caught_onlyClientErrors(outcome) == outcome.kind = "raise"
Caught(outcome) == TRUE

\* `if extracted is None: return` (main.py:105-107)
\* faulty variant: the test is missing
ShouldSave_always(value) == TRUE
ShouldSave(value) == value.kind # "None"

\* faulty variants: the retry is unbounded, or never taken
ShouldRetry_always(count) == TRUE
ShouldRetry_never(count) == FALSE
ShouldRetry(count) == count < MaxRetries

PrayInit ==
    /\ xai_client \in BOOLEAN
    /\ p_pc = "idle"
    /\ message_text = << >>
    /\ retry_count = 0
    /\ xaiCalls = 0
    /\ callLog = << >>
    /\ extracted = None
    /\ exitLine = "none"
    /\ saved = << >>

\* on_message -> handle_prayer_message -> extract_prayer(message.content)
\* (main.py:103): retry_count takes its default 0
PrayerMessage(text) ==
    /\ ~EngageHoldsLoop
    /\ p_pc = "idle"
    /\ p_pc' = "entry"
    /\ message_text' = text
    /\ retry_count' = 0
    /\ UNCHANGED <<xai_client, xaiCalls, callLog, extracted, exitLine, saved>>
    /\ UNCHANGED <<sessVars, engVars, cmdVars>>

\* the two guards at the top of extract_prayer (prayer_extraction.py:42-48), run
\* by the first call and again by the recursive call
ExtractEntry ==
    /\ p_pc = "entry"
    /\ IF ~xai_client
       THEN /\ p_pc' = "returned"
            /\ extracted' = None
            /\ exitLine' = "client_none"
       ELSE IF IsBlank(message_text)
       THEN /\ p_pc' = "returned"
            /\ extracted' = None
            /\ exitLine' = "empty_text"
       ELSE /\ p_pc' = "call"
            /\ UNCHANGED <<extracted, exitLine>>
    /\ UNCHANGED <<xai_client, message_text, retry_count, xaiCalls, callLog, saved>>
    /\ UNCHANGED <<sessVars, engVars, cmdVars>>

\* xai_client.chat.completions.create(...) and what follows it inside the
\* try block and its except clause (prayer_extraction.py:59-98).  A content of
\* None makes `.strip()` raise AttributeError, which the except clause
\* catches like a failure of the call.
ExtractCall(outcome) ==
    /\ p_pc = "call"
    /\ xaiCalls' = xaiCalls + 1
    /\ callLog' = Append(callLog, outcome)
    /\ IF outcome.kind = "str"
       THEN LET response == Strip(outcome.text)
            IN /\ p_pc' = "returned"
               /\ IF IsNoPrayer(response)
                  THEN extracted' = None /\ exitLine' = "no_prayer"
                  ELSE extracted' = Str(response) /\ exitLine' = "extracted"
       ELSE IF ~Caught(outcome)
       THEN /\ p_pc' = "raised"             \* the exception leaves extract_prayer
            /\ UNCHANGED <<extracted, exitLine>>
       ELSE IF ShouldRetry(retry_count)
       THEN /\ p_pc' = "sleep"
            /\ UNCHANGED <<extracted, exitLine>>
       ELSE /\ p_pc' = "returned"
            /\ extracted' = None
            /\ exitLine' = "exhausted"
    /\ UNCHANGED <<xai_client, message_text, retry_count, saved>>
    /\ UNCHANGED <<sessVars, engVars, cmdVars>>

\* time.sleep(2) is over; `return extract_prayer(message_text,
\* retry_count=retry_count + 1)` (prayer_extraction.py:89-91)
ExtractRetry ==
    /\ p_pc = "sleep"
    /\ p_pc' = "entry"
    /\ retry_count' = retry_count + 1
    /\ UNCHANGED <<xai_client, message_text, xaiCalls, callLog, extracted, exitLine, saved>>
    /\ UNCHANGED <<sessVars, engVars, cmdVars>>

\* extract_prayer returned to handle_prayer_message, which saves the prayer
\* unless the value is None (main.py:105-122)
HandlePrayerReturn ==
    /\ p_pc = "returned"
    /\ p_pc' = "handled"
    /\ saved' = IF ShouldSave(extracted)
                THEN Append(saved, [raw_message |-> message_text,
                                    extracted_prayer |-> extracted.text])
                ELSE saved
    /\ UNCHANGED <<xai_client, message_text, retry_count, xaiCalls, callLog,
                   extracted, exitLine>>
    /\ UNCHANGED <<sessVars, engVars, cmdVars>>

(***************************************************************************)
(* Engagement message generator (message_generator.py).                    *)
(*                                                                         *)
(* A response is a sequence of tokens.  FENCE is a code fence, "json" the   *)
(* language tag, "ws" one whitespace character, "." one character of       *)
(* prose; "{", "}", ",", "[", "]" are JSON punctuation, and a token K:v is *)
(* one `"key": value` member: K is N (mentor_reminder), P (mentee_template)*)
(* or X (any other key); v is s (a non-empty string), e (the empty string) *)
(* or n (null).                                                            *)
(***************************************************************************)
Fence == "FENCE"
Members == {"N:s", "N:e", "N:n", "P:s", "P:e", "P:n", "X:s"}

\* Python's None, as a member value
PyNone == "<None>"
\* the strings the service writes into its two fields
AiReminder == "ai mentor_reminder"
AiTemplate == "ai mentee_template"

MemberKey(m) ==
    IF m \in {"N:s", "N:e", "N:n"} THEN "mentor_reminder"
    ELSE IF m \in {"P:s", "P:e", "P:n"} THEN "mentee_template"
    ELSE "other"

MemberValue(m) ==
    CASE m = "N:s" -> AiReminder
      [] m = "P:s" -> AiTemplate
      [] m = "X:s" -> "x"
      [] m \in {"N:e", "P:e"} -> ""
      [] OTHER -> PyNone

\* str.find(sub, start) for a one-token sub; positions are 1-based here and 0
\* stands for Python's -1
FindFrom(toks, tok, start) ==
    IF \E i \in start..Len(toks) : toks[i] = tok
    THEN CHOOSE i \in start..Len(toks) :
            toks[i] = tok /\ \A j \in start..(i - 1) : toks[j] # tok
    ELSE 0

\* content.find of the fence with its json tag (line 132): the first fence
\* directly followed by the tag
FindFenceJson(toks) ==
    IF \E i \in 1..(Len(toks) - 1) : toks[i] = Fence /\ toks[i + 1] = "json"
    THEN CHOOSE i \in 1..(Len(toks) - 1) :
            /\ toks[i] = Fence /\ toks[i + 1] = "json"
            /\ \A j \in 1..(i - 1) : ~(toks[j] = Fence /\ toks[j + 1] = "json")
    ELSE 0

\* content[json_start:json_end] where first is the 1-based position of
\* json_start and closing that of json_end: a json_end of -1 (closing = 0)
\* makes the slice stop before the last character
Slice(toks, first, closing) ==
    IF closing = 0 THEN SubSeq(toks, first, Len(toks) - 1)
    ELSE SubSeq(toks, first, closing - 1)

RECURSIVE StripWs(_)
StripWs(toks) ==
    IF toks # << >> /\ Head(toks) = "ws" THEN StripWs(Tail(toks))
    ELSE IF toks # << >> /\ toks[Len(toks)] = "ws"
    THEN StripWs(SubSeq(toks, 1, Len(toks) - 1))
    ELSE toks

\* lines 131-138: unwrap a fenced block
Unwrap(toks) ==
    IF FindFenceJson(toks) # 0
    THEN LET json_start == FindFenceJson(toks) + 2
         IN StripWs(Slice(toks, json_start, FindFrom(toks, Fence, json_start)))
    ELSE IF FindFrom(toks, Fence, 1) # 0
    THEN LET json_start == FindFrom(toks, Fence, 1) + 1
         IN StripWs(Slice(toks, json_start, FindFrom(toks, Fence, json_start)))
    ELSE toks

\* json.loads: whitespace between tokens is insignificant
RECURSIVE DropWs(_)
DropWs(toks) ==
    IF toks = << >> THEN << >>
    ELSE IF Head(toks) = "ws" THEN DropWs(Tail(toks))
    ELSE <<Head(toks)>> \o DropWs(Tail(toks))

IsJsonObject(toks) ==
    LET t == DropWs(toks)
        n == Len(t)
    IN /\ n >= 2
       /\ t[1] = "{"
       /\ t[n] = "}"
       /\ \/ n = 2
          \/ /\ n % 2 = 1
             /\ \A i \in 2..(n - 1) :
                    IF i % 2 = 0 THEN t[i] \in Members ELSE t[i] = ","

\* parsed.get(key, ""): json.loads keeps the last member of a repeated key
Get(toks, key) ==
    LET t == DropWs(toks)
        at == {i \in 1..Len(t) : t[i] \in Members /\ MemberKey(t[i]) = key}
    IN IF at = {} THEN ""
       ELSE MemberValue(t[CHOOSE i \in at : \A j \in at : j <= i])

\* the fixed pool of _get_fallback_message (message_generator.py:161-222)
Fallbacks ==
    << [mentor_reminder |-> "<@&MENTOR_ROLE_ID> Time for a vibe check with your groups!",
        mentee_template |-> "POV: You can only keep 3 apps on your phone for a month."],
       [mentor_reminder |-> "<@&MENTOR_ROLE_ID> Quick nudge to engage your squads!",
        mentee_template |-> "Hot take thread! Drop your most controversial opinion."],
       [mentor_reminder |-> "<@&MENTOR_ROLE_ID> Channel check-in time!",
        mentee_template |-> "If your current mood was a song, what would it be?"],
       [mentor_reminder |-> "<@&MENTOR_ROLE_ID> Touch base with your crews when you can!",
        mentee_template |-> "Would you rather: sing everything you say for a day OR dance?"],
       [mentor_reminder |-> "<@&MENTOR_ROLE_ID> Weekly group engagement reminder!",
        mentee_template |-> "Rate your week using only emojis (max 5)."],
       [mentor_reminder |-> "<@&MENTOR_ROLE_ID> Check in with your mentees!",
        mentee_template |-> "Quick! You're making a time capsule to open in 5 years."] >>
FallbackPool == {Fallbacks[i] : i \in 1..Len(Fallbacks)}

\* the except clause of generate_engagement_message: `return
\* self._get_fallback_message()`, which is random.choice(fallbacks)
\* (message_generator.py:151-157, 224)
\* faulty variant: the except clause returns an empty dict
OnFailure_empty(i) == [mentor_reminder |-> "", mentee_template |-> ""]
OnFailure(i) == Fallbacks[i]

\* self.themes (message_generator.py:39-48)
NumThemes == 8
Themes == 1..NumThemes

\* responses of the service
Contents ==
    { <<"{", "N:s", ",", "P:s", "}">>,
      <<"{", "P:s", ",", "ws", "N:s", "}", "ws">>,
      <<Fence, "json", "ws", "{", "N:s", ",", "P:s", "}", "ws", Fence>>,
      <<".", Fence, "json", "ws", "{", "N:s", ",", "P:s", "}", Fence, ".">>,
      <<Fence, "ws", "{", "N:s", ",", "P:s", "}", "ws", Fence>>,
      <<Fence, "json", "ws", "{", "N:s", ",", "P:s", "}", "ws">>,
      <<Fence, "json", "ws", "{", "N:s", ",", "P:s", "}">>,
      <<Fence, "json">>,
      <<"{", "N:s", "}">>,
      <<"{", "P:s", "}">>,
      <<"{", "}">>,
      <<"{", "N:e", ",", "P:s", "}">>,
      <<"{", "N:s", ",", "P:e", "}">>,
      <<"{", "N:n", ",", "P:n", "}">>,
      <<"{", "N:e", ",", "N:s", ",", "X:s", "}">>,
      <<"[", "]">>,
      <<"{", "N:s", ",", "P:s">>,
      <<"{", "N:s", "P:s", "}">>,
      <<".", "{", "N:s", ",", "P:s", "}">>,
      <<".">>,
      << >> }

\* `not value` for a value that is a string or None (slash_commands.py:209, 234)
\* faulty variant: the emptiness test is missing
Falsy_never(value) == FALSE
Falsy(value) == value \in {"", PyNone}

\* ways in which the request to the service yields no text: the client raises,
\* or the completion carries no content (then the test of line 131 raises)
CallFailures == {"raise", "no content"}

\* the value generate_engagement_message returns for a response text
\* (message_generator.py:128-157): the dict of line 146 when the unwrapped
\* text is a JSON object, the fallback when json.loads raises or when the
\* parsed value has no .get (a JSON array)
Generated(text, i) ==
    IF IsJsonObject(Unwrap(text))
    THEN [mentor_reminder |-> Get(Unwrap(text), "mentor_reminder"),
          mentee_template |-> Get(Unwrap(text), "mentee_template")]
    ELSE OnFailure(i)

NoData == [mentor_reminder |-> "", mentee_template |-> ""]

EngInit ==
    /\ api_key \in {"claude", "xai", "none"}
    /\ e_pc = "idle"
    /\ e_admin = FALSE
    /\ theme = 0
    /\ aiCalls = 0
    /\ content = << >>
    /\ message_data = NoData
    /\ source = "none"
    /\ posted = << >>
    /\ e_reply = "none"

\* `if interaction.user.id != admin_user_id` (slash_commands.py:182-183)
\* faulty variant: the test is missing
NotAdministrator_never == FALSE
NotAdministrator == ~e_admin

\* /engage is invoked; the handler runs to `await interaction.response.defer`
\* (slash_commands.py:179)
EngageInvoke(is_admin) ==
    /\ ~PrayerHoldsLoop
    /\ e_pc = "idle"
    /\ e_pc' = "defer"
    /\ e_admin' = is_admin
    /\ UNCHANGED <<api_key, theme, aiCalls, content, message_data, source, posted, e_reply>>
    /\ UNCHANGED <<sessVars, prayVars, cmdVars>>

\* defer returned: the admin check, the channel lookup, the constructor of
\* EngagementMessageGenerator and the start of generate_engagement_message,
\* up to the request to the service (slash_commands.py:182-204,
\* message_generator.py:15-36, 60-122)
EngageResume(channel_found, t) ==
    /\ ~PrayerHoldsLoop
    /\ e_pc = "defer"
    /\ IF NotAdministrator
       THEN /\ e_pc' = "done"
            /\ e_reply' = "admins_only"
            /\ UNCHANGED theme
       ELSE IF ~channel_found
       THEN /\ e_pc' = "done"
            /\ e_reply' = "channel_not_found"
            /\ UNCHANGED theme
       ELSE IF api_key = "none"
       THEN /\ e_pc' = "done"                \* ValueError, caught at line 252
            /\ e_reply' = "error"
            /\ UNCHANGED theme
       ELSE /\ e_pc' = "request"
            /\ theme' = t
            /\ UNCHANGED e_reply
    /\ UNCHANGED <<api_key, e_admin, aiCalls, content, message_data, source, posted>>
    /\ UNCHANGED <<sessVars, prayVars, cmdVars>>

\* the request to the service fails: the except clause returns a fallback
GenerateFails(failure, i) ==
    /\ e_pc = "request"
    /\ failure \in CallFailures
    /\ aiCalls' = aiCalls + 1
    /\ content' = << >>
    /\ message_data' = OnFailure(i)
    /\ source' = "fallback"
    /\ e_pc' = "generated"
    /\ UNCHANGED <<api_key, e_admin, theme, posted, e_reply>>
    /\ UNCHANGED <<sessVars, prayVars, cmdVars>>

\* the service answers with text: unwrap, json.loads, build the dict
\* faulty variant: a response that does not parse is requested once more
GenerateAnswers_retry(text, i) ==
    /\ e_pc = "request"
    /\ aiCalls' = aiCalls + 1
    /\ content' = text
    /\ message_data' = Generated(text, i)
    /\ source' = IF IsJsonObject(Unwrap(text)) THEN "ai" ELSE "fallback"
    /\ e_pc' = IF IsJsonObject(Unwrap(text)) \/ aiCalls >= 1
               THEN "generated" ELSE "request"
    /\ UNCHANGED <<api_key, e_admin, theme, posted, e_reply>>
    /\ UNCHANGED <<sessVars, prayVars, cmdVars>>
GenerateAnswers(text, i) ==
    /\ e_pc = "request"
    /\ aiCalls' = aiCalls + 1
    /\ content' = text
    /\ message_data' = Generated(text, i)
    /\ source' = IF IsJsonObject(Unwrap(text)) THEN "ai" ELSE "fallback"
    /\ e_pc' = "generated"
    /\ UNCHANGED <<api_key, e_admin, theme, posted, e_reply>>
    /\ UNCHANGED <<sessVars, prayVars, cmdVars>>

\* generate_engagement_message returned; engage_command checks the reminder
\* and builds the embed, up to `await channel.send(embed=embed)`
\* (slash_commands.py:206-244)
EngageCheck ==
    /\ e_pc = "generated"
    /\ IF Falsy(message_data.mentor_reminder)
       THEN /\ e_pc' = "done"
            /\ e_reply' = "generation_failed"
       ELSE /\ e_pc' = "send"
            /\ UNCHANGED e_reply
    /\ UNCHANGED <<api_key, e_admin, theme, aiCalls, content, message_data, source, posted>>
    /\ UNCHANGED <<sessVars, prayVars, cmdVars>>

\* the embed of lines 227-241: the reminder as description, and the
\* conversation-starter field only when the template is not empty
Embed(data) ==
    [description |-> data.mentor_reminder,
     starter |-> IF Falsy(data.mentee_template) THEN "" ELSE data.mentee_template]

\* channel.send returned or raised (slash_commands.py:244-257)
EngageSendResume(outcome) ==
    /\ ~PrayerHoldsLoop
    /\ e_pc = "send"
    /\ e_pc' = "done"
    /\ IF outcome = "ok"
       THEN /\ posted' = Append(posted, Embed(message_data))
            /\ e_reply' = "sent"
       ELSE /\ e_reply' = "error"
            /\ UNCHANGED posted
    /\ UNCHANGED <<api_key, e_admin, theme, aiCalls, content, message_data, source>>
    /\ UNCHANGED <<sessVars, prayVars, cmdVars>>

(***************************************************************************)
(* The /prayer command (slash_commands.py:85-174).  A text is kept as the  *)
(* number of its characters; a message is kept as the sequence of the      *)
(* lines it was joined from, line 0 being the header and line i the i-th   *)
(* prayer, so that its length and its content are both computed.           *)
(***************************************************************************)
LowerChar(c) ==
    IF \E i \in 1..Len(UpperLetters) : UpperLetters[i] = c
    THEN LowerLetters[CHOOSE i \in 1..Len(UpperLetters) : UpperLetters[i] = c]
    ELSE c

\* str.lower()
Lower(str) == [i \in 1..Len(str) |-> LowerChar(str[i])]

MentorRole == <<"m","e","n","t","o","r">>
RoleNames == {MentorRole, <<"M","e","n","t","o","r">>, <<"M","E","N","T","O","R">>,
              <<"m","e","n","t","e","e">>, <<"m","e","n","t","o","r","s">>,
              <<"a","d","m","i","n">>}
\* interaction.user is a Member with roles, or a User without the attribute
Requesters ==
    {[has_roles |-> FALSE, roles |-> << >>], [has_roles |-> TRUE, roles |-> << >>]}
        \cup {[has_roles |-> TRUE, roles |-> <<r>>] : r \in RoleNames}
        \cup {[has_roles |-> TRUE, roles |-> <<r, MentorRole>>] :
                    r \in {<<"a","d","m","i","n">>}}

\* the loop over interaction.user.roles (slash_commands.py:91-96)
\* faulty variant: the role check always succeeds
HasMentorRole_always(user) == TRUE
HasMentorRole(user) ==
    /\ user.has_roles
    /\ \E i \in 1..Len(user.roles) : Lower(user.roles[i]) = MentorRole

\* Discord's limit and the length at which the handler starts a new message
DiscordLimit == 2000
ChunkBuffer == 1900
\* "**This week's prayers (Nov 02-08):**" and its newline
HeaderLen == 37
MaxPrayers == 3
\* lengths of extracted_prayer and of the username before its "#"
TextLens == {1, 939, 989, 1889, 1890, 1990}
NameLens == {4}
Rows == [text : TextLens, name : NameLens]
RowLists == UNION {[1..n -> Rows] : n \in 0..MaxPrayers}

\* number of decimal digits of i
Digits(i) == IF i < 10 THEN 1 ELSE IF i < 100 THEN 2 ELSE 3

\* len(prayer_lines[i]): the header, or f"{i}. {prayer_text} - @{username}"
LineLen(rows, i) ==
    IF i = 0 THEN HeaderLen
    ELSE Digits(i) + 2 + rows[i].text + 4 + rows[i].name

\* len("\n".join(lines)) for a message made of the lines msg
RECURSIVE SumLen(_, _)
SumLen(rows, msg) ==
    IF msg = << >> THEN 0 ELSE LineLen(rows, Head(msg)) + SumLen(rows, Tail(msg))
MsgLen(rows, msg) == SumLen(rows, msg) + (Len(msg) - 1)

\* the loop of lines 144-151, at prayer line i with current_message and the
\* messages appended so far
RECURSIVE Split(_, _, _, _)
Split(rows, i, current, done) ==
    IF i > Len(rows) THEN Append(done, current)
    ELSE IF MsgLen(rows, current) + LineLen(rows, i) + 1 > ChunkBuffer
    THEN Split(rows, i + 1, <<i>>, Append(done, current))
    ELSE Split(rows, i + 1, Append(current, i), done)

\* the list `messages` (slash_commands.py:136-153)
\* faulty variant: the formatted message is never split
Messages_noSplit(rows) == << [i \in 1..(Len(rows) + 1) |-> i - 1] >>
Messages(rows) ==
    LET formatted_message == [i \in 1..(Len(rows) + 1) |-> i - 1]
    IN IF MsgLen(rows, formatted_message) > DiscordLimit
       THEN Split(rows, 1, <<0>>, << >>)
       ELSE <<formatted_message>>

\* the followup of prayer_command after the DM part (slash_commands.py:162-174)
PrayerFollowup(outcome) ==
    CASE outcome = "ok" -> "sent"
      [] outcome = "Forbidden" -> "dm_forbidden"
      [] OTHER -> "error"

CmdInit ==
    /\ c_pc = "idle"
    /\ c_user = [has_roles |-> FALSE, roles |-> << >>]
    /\ queries = 0
    /\ prayers = << >>
    /\ messages = << >>
    /\ dm_sent = << >>
    /\ c_reply = "none"

\* /prayer is invoked; the handler runs to `await interaction.response.defer`
\* (slash_commands.py:88)
PrayerCmdInvoke(user) ==
    /\ ~LoopHeld
    /\ c_pc = "idle"
    /\ c_pc' = "defer"
    /\ c_user' = user
    /\ UNCHANGED <<queries, prayers, messages, dm_sent, c_reply>>
    /\ UNCHANGED <<sessVars, prayVars, engVars>>

\* defer returned: the role check, the query, the formatting and the split,
\* up to the rejection, the "no prayers" followup or `await create_dm()`
\* (slash_commands.py:90-157)
PrayerCmdResume(rows) ==
    /\ ~LoopHeld
    /\ c_pc = "defer"
    /\ IF ~HasMentorRole(c_user)
       THEN /\ c_pc' = "done"
            /\ c_reply' = "mentors_only"
            /\ UNCHANGED <<queries, prayers, messages>>
       ELSE /\ queries' = queries + 1
            /\ prayers' = rows
            /\ IF rows = << >>
               THEN /\ c_pc' = "done"
                    /\ c_reply' = "no_prayers"
                    /\ UNCHANGED messages
               ELSE /\ c_pc' = "create_dm"
                    /\ messages' = Messages(rows)
                    /\ UNCHANGED c_reply
    /\ UNCHANGED <<c_user, dm_sent>>
    /\ UNCHANGED <<sessVars, prayVars, engVars>>

\* `await interaction.user.create_dm()` returned or raised (line 157)
PrayerCmdDmResume(outcome) ==
    /\ ~LoopHeld
    /\ c_pc = "create_dm"
    /\ IF outcome = "ok"
       THEN c_pc' = "send" /\ UNCHANGED c_reply
       ELSE c_pc' = "done" /\ c_reply' = PrayerFollowup(outcome)
    /\ UNCHANGED <<c_user, queries, prayers, messages, dm_sent>>
    /\ UNCHANGED <<sessVars, prayVars, engVars>>

\* `await dm_channel.send(msg)` of the next message returned or raised; after
\* the last one the success followup is sent (lines 159-164)
PrayerCmdSend(outcome) ==
    /\ ~LoopHeld
    /\ c_pc = "send"
    /\ IF outcome = "ok"
       THEN /\ dm_sent' = Append(dm_sent, messages[Len(dm_sent) + 1])
            /\ IF Len(dm_sent) + 1 = Len(messages)
               THEN c_pc' = "done" /\ c_reply' = PrayerFollowup(outcome)
               ELSE UNCHANGED <<c_pc, c_reply>>
       ELSE /\ c_pc' = "done"
            /\ c_reply' = PrayerFollowup(outcome)
            /\ UNCHANGED dm_sent
    /\ UNCHANGED <<c_user, queries, prayers, messages>>
    /\ UNCHANGED <<sessVars, prayVars, engVars>>

vars == <<sessVars, prayVars, engVars, cmdVars>>
Init == SessInit /\ PrayInit /\ EngInit /\ CmdInit

\* the personality-test commands and the answer clicks
Next ==
    \/ \E h \in Handlers, u \in Users : Invoke(h, u)
    \/ \E h \in Handlers : DeferResume(h)
    \/ \E h \in Handlers, d \in BOOLEAN : CreateDmOk(h, d)
    \/ \E h \in Handlers, o \in TransportOutcomes : CreateDmFails(h, o)
    \/ \E h \in Handlers, o \in TransportOutcomes : SendResume(h, o)
    \/ \E u \in Users, opt \in 0..NumOptions : SubmitAnswer(u, opt)
    \/ \E u \in Users : Abandon(u)
\* the generation pipelines never touch the session store: their
\* configuration is held fixed here
InitCommands == Init /\ xai_client = TRUE /\ api_key = "claude" /\ unprofiled = {}
Spec == InitCommands /\ [][Next]_vars

\* the prayer-wall message flow
PrayerNext ==
    \/ \E text \in MessageTexts : PrayerMessage(text)
    \/ ExtractEntry
    \/ \E outcome \in CallOutcomes : ExtractCall(outcome)
    \/ ExtractRetry
    \/ HandlePrayerReturn
InitPrayer == Init /\ api_key = "claude" /\ unprofiled = {}
SpecPrayer == InitPrayer /\ [][PrayerNext]_vars

\* the session engine observed at its interface
EngineNext ==
    \/ \E u \in Users, d \in BOOLEAN : Start(u, d)
    \/ \E u \in Users, opt \in (0..(NumOptions - 1)) \cup InvalidOptions : Click(u, opt)
    \/ \E u \in Users : Drop(u)
InitEngine == Init /\ xai_client = TRUE /\ api_key = "claude"
SpecEngine == InitEngine /\ [][EngineNext]_vars

\* the start handlers, the answer callbacks and the prayer wall on one event
\* loop
LoopNext ==
    \/ Next
    \/ PrayerNext
SpecLoop == InitCommands /\ [][LoopNext]_vars

\* the /engage command
EngageNext ==
    \/ \E a \in BOOLEAN : EngageInvoke(a)
    \/ \E found \in BOOLEAN, t \in Themes : EngageResume(found, t)
    \/ \E f \in CallFailures, i \in 1..Len(Fallbacks) : GenerateFails(f, i)
    \/ \E text \in Contents, i \in 1..Len(Fallbacks) : GenerateAnswers(text, i)
    \/ EngageCheck
    \/ \E o \in TransportOutcomes : EngageSendResume(o)
InitEngage == Init /\ xai_client = TRUE /\ unprofiled = {}
SpecEngage == InitEngage /\ [][EngageNext]_vars

\* the /prayer command
PrayerCmdNext ==
    \/ \E user \in Requesters : PrayerCmdInvoke(user)
    \/ \E rows \in RowLists : PrayerCmdResume(rows)
    \/ \E o \in TransportOutcomes : PrayerCmdDmResume(o)
    \/ \E o \in TransportOutcomes : PrayerCmdSend(o)
SpecPrayerCmd == InitCommands /\ [][PrayerCmdNext]_vars

(***************************************************************************)
(* Properties.                                                             *)
(***************************************************************************)
\* handlers of user u that ran the test of line 64 while removals[u] was e
Round(u, e) == {h \in Handlers : h_user[h] = u /\ checkedAt[h] = e}

\* C1: among the start requests of one user that are processed with no
\* completion or abandon in between, exactly one creates the Session and
\* every other one is rejected (it is sent the warning of line 66).
C1_ExactlyOneCreates ==
    \A u \in Users, e \in 0..NumHandlers :
        Round(u, e) # {} =>
            /\ Cardinality({h \in Round(u, e) : created[h]}) = 1
            /\ \A h \in Round(u, e) :
                   pc[h] = "send_question" => created[h]
            /\ \A h \in Round(u, e) :
                   pc[h] = "send_warning" => ~created[h]

C1_Witness ==
    \E h1, h2 \in Handlers :
        /\ h1 # h2
        /\ h_user[h1] = h_user[h2]
        /\ checkedAt[h1] >= 0
        /\ checkedAt[h1] = checkedAt[h2]
        /\ created[h1]
        /\ pc[h2] = "send_warning"

\* C2: a start request that finds a Session of its user in the store is
\* rejected and leaves the whole store as it was.
C2_RejectedStartMutatesNothing ==
    [][\A h \in Handlers :
          ( /\ pc[h] = "create_dm"
            /\ pc'[h] \in {"send_warning", "send_question"}
            /\ h_user[h] \in DOMAIN sessions )
          => (pc'[h] = "send_warning" /\ sessions' = sessions)]_vars

C2_Witness ==
    \E h \in Handlers :
        /\ pc[h] = "send_warning"
        /\ h_user[h] \in DOMAIN sessions
        /\ removals[h_user[h]] = 0
        /\ sessions[h_user[h]].current_question > 0
        /\ ~sessions[h_user[h]].is_dummy

\* C3: when the first question cannot be delivered (Forbidden) the request
\* leaves no Session behind: the Session it inserted is not in the store.
C3_ForbiddenLeavesNoSession ==
    \A h \in Handlers :
        (pc[h] = "followup" /\ reply[h] = "dm_forbidden" /\ created[h])
        => ~(h_user[h] \in DOMAIN sessions /\ removals[h_user[h]] = checkedAt[h])

Failed(outcome) == outcome.kind # "str"
\* extract_prayer has returned
Returned == p_pc \in {"returned", "handled"}

\* C4: a failed first invocation is followed by a second one, and when the
\* second succeeds its value is what extract_prayer returns, after exactly two
\* invocations.
C4_RetryReturnsSecond ==
    (p_pc = "returned" /\ callLog # << >> /\ Failed(callLog[1])) =>
        /\ xaiCalls = 2
        /\ Len(callLog) = 2
        /\ ~Failed(callLog[2]) =>
              /\ exitLine \in {"extracted", "no_prayer"}
              /\ exitLine = "extracted" => extracted = Str(Strip(callLog[2].text))
              /\ exitLine = "no_prayer" => extracted = None

C4_Witness ==
    /\ p_pc = "returned"
    /\ Len(callLog) = 2
    /\ Failed(callLog[1])
    /\ callLog[2] = Str(<<" ","H","e","a","l"," ","A","n","n","\n">>)
    /\ extracted = Str(<<"H","e","a","l"," ","A","n","n">>)

\* C5: the service is never invoked more than MaxAttempts = 2 times for one
\* message, and when every invocation fails extract_prayer gives up after
\* exactly 2 invocations.
C5_ExhaustedAfterTwo ==
    /\ MaxAttempts = 2
    /\ xaiCalls <= MaxAttempts
    /\ xaiCalls = Len(callLog)
    /\ (p_pc = "returned" /\ callLog # << >>
            /\ \A i \in 1..Len(callLog) : Failed(callLog[i]))
       => (xaiCalls = 2 /\ exitLine = "exhausted" /\ extracted = None)

C5_Witness ==
    /\ p_pc = "returned"
    /\ exitLine = "exhausted"
    /\ callLog = <<Raised, None>>

EnginePast == e_pc \in {"generated", "send", "done"} /\ source # "none"

MeetsContract(text) ==
    /\ IsJsonObject(Unwrap(text))
    /\ Get(Unwrap(text), "mentor_reminder") \notin {"", PyNone}
    /\ Get(Unwrap(text), "mentee_template") \notin {"", PyNone}

C9_BlankTextSkipsService ==
    (p_pc # "idle" /\ \A i \in 1..Len(message_text) : message_text[i] \in Whitespace)
    => /\ xaiCalls = 0
       /\ p_pc \in {"entry", "returned", "handled"}
       /\ Returned => (extracted = None /\ exitLine \in {"client_none", "empty_text"})

C9_Witness ==
    /\ p_pc = "returned"
    /\ message_text = <<" ", "\n", "\t">>
    /\ exitLine = "empty_text"
    /\ xai_client

\* x and y are the same text up to the case of their letters
SameIgnoringCase(x, y) ==
    /\ Len(x) = Len(y)
    /\ \A i \in 1..Len(x) :
          \/ x[i] = y[i]
          \/ \E k \in 1..Len(LowerLetters) :
                {x[i], y[i]} = {LowerLetters[k], UpperLetters[k]}

\* C10: a successful invocation ends extract_prayer without a retry: it
\* returns None when the trimmed response is empty or is the sentinel in any
\* casing, and the trimmed response otherwise.
C10_SuccessfulResponse ==
    (callLog # << >> /\ ~Failed(callLog[Len(callLog)])) =>
        LET response == Strip(callLog[Len(callLog)].text)
        IN /\ Returned
           /\ \A i \in 1..(Len(callLog) - 1) : Failed(callLog[i])
           /\ IF response = << >> \/ SameIgnoringCase(response, NO_PRAYER)
              THEN extracted = None /\ exitLine = "no_prayer"
              ELSE extracted = Str(response) /\ exitLine = "extracted"

C10_Witness ==
    /\ p_pc = "returned"
    /\ callLog = <<Str(<<"\n","n","o","_","P","R","A","Y","E","R"," "," ">>)>>
    /\ extracted = None
    /\ exitLine = "no_prayer"

\* C11: save_prayer is called for a message only with the sentence that
\* extract_prayer returned for it; when extract_prayer ends without a
\* sentence (retries exhausted, NO_PRAYER, blank text, no client) nothing is
\* saved.
C11_SavedOnlyWhenExtracted ==
    /\ Len(saved) <= 1
    /\ saved # << >> =>
          /\ p_pc = "handled"
          /\ exitLine = "extracted"
          /\ callLog # << >>
          /\ ~Failed(callLog[Len(callLog)])
          /\ saved[1] = [raw_message |-> message_text,
                         extracted_prayer |-> Strip(callLog[Len(callLog)].text)]
    /\ (p_pc = "handled" /\ exitLine # "extracted") => saved = << >>

C11_Witness ==
    /\ p_pc = "handled"
    /\ exitLine = "exhausted"
    /\ xaiCalls = 2
    /\ saved = << >>

HandlerStep(h) ==
    \/ DeferResume(h)
    \/ \E is_dummy \in BOOLEAN : CreateDmOk(h, is_dummy)
    \/ \E outcome \in TransportOutcomes : CreateDmFails(h, outcome)
    \/ \E outcome \in TransportOutcomes : SendResume(h, outcome)

\* C13: while a prayer extraction is in its external call or waiting in its
\* retry backoff, every start handler suspended at an await can take its next
\* step, and a new command can be taken up.
C13_BackoffBlocksOnlyItsFlow ==
    p_pc \in {"call", "sleep"} =>
        /\ \A h \in Handlers :
              pc[h] \in {"defer", "create_dm", "send_warning", "send_question"}
                  => ENABLED HandlerStep(h)
        /\ \A h \in Handlers :
              pc[h] = "idle" => ENABLED (\E u \in Users : Invoke(h, u))

\* C14: every session in the store has 0 <= current_question <=
\* len(questions) and is not terminal (current_question < len(questions)),
\* and a session that enters the store enters it with current_question = 0.
C14_IndexWithinSequence ==
    /\ [](\A u \in DOMAIN sessions :
            /\ 0 <= sessions[u].current_question
            /\ sessions[u].current_question <= QuestionCount(sessions[u].is_dummy)
            /\ sessions[u].current_question # QuestionCount(sessions[u].is_dummy))
    /\ [][\A u \in Users :
            (u \notin DOMAIN sessions /\ u \in DOMAIN sessions')
                => sessions'[u].current_question = 0]_vars

C14_Witness ==
    /\ \E u \in DOMAIN sessions :
          /\ ~sessions[u].is_dummy
          /\ sessions[u].current_question = NumFullQuestions - 1
          /\ sessions[u].current_question > 0
    /\ \E u \in Users : removals[u] > 0 /\ u \notin DOMAIN sessions

\* C15: submitAnswer with an option-index outside [0, optionCount) returns
\* InvalidOption and leaves the scores and the index of the session, and the
\* whole store, as they were.
C15_InvalidOptionMutatesNothing ==
    [][\A u \in Users, opt \in InvalidOptions :
          (HasActiveSession(u) /\ Click(u, opt))
              => /\ engineResult'.kind = "InvalidOption"
                 /\ engineResult'.owner = u
                 /\ sessions' = sessions
                 /\ answered' = answered]_vars

C15_Witness ==
    /\ engineResult.kind = "InvalidOption"
    /\ engineResult.owner \in DOMAIN sessions
    /\ sessions[engineResult.owner].current_question > 0
    /\ sessions[engineResult.owner].current_question = engineResult.index
    /\ sessions[engineResult.owner].scores # ZeroScores

\* C16: in a full-mode session of N questions the N-th valid answer, and no
\* earlier one, completes the session: it returns the final result with
\* index N and a four-letter code and removes the session from the store,
\* while every earlier valid answer returns the next question and keeps the
\* session.
C16_FullSessionCompletesAtN ==
    /\ [](\A u \in DOMAIN sessions :
            Len(answered[u]) < QuestionCount(sessions[u].is_dummy))
    /\ [][\A u \in Users, opt \in 0..(NumOptions - 1) :
            (HasActiveSession(u) /\ ~sessions[u].is_dummy /\ Click(u, opt))
                => IF Len(answered[u]) + 1 = NumFullQuestions
                   THEN /\ engineResult'.kind = "final-result"
                        /\ engineResult'.index = NumFullQuestions
                        /\ Len(engineResult'.code) = 4
                        /\ u \notin DOMAIN sessions'
                   ELSE /\ engineResult'.kind = "next-question"
                        /\ Len(answered[u]) + 1 < NumFullQuestions
                        /\ u \in DOMAIN sessions']_vars

C16_Witness ==
    /\ engineResult.kind = "final-result"
    /\ engineResult.index = NumFullQuestions
    /\ Len(engineResult.answers) = NumFullQuestions
    /\ engineResult.owner \notin DOMAIN sessions

\* how many of the answers of log chose option opt of a question of
\* dimension d
Chosen(log, d, opt) ==
    Cardinality({i \in 1..Len(log) : QuestionDimension(i) = d /\ log[i] = opt})

\* C17: the four-letter code of a final result is determined by the answers
\* of the session: per dimension it is the pole chosen more often, and the
\* first pole of the dimension (E, S, T, J) whenever the two poles are tied.
C17_CodeIsFunctionOfAnswers ==
    engineResult.kind = "final-result" =>
        \A d \in 1..Len(Dimensions) :
            LET first == Chosen(engineResult.answers, d, 0)
                second == Chosen(engineResult.answers, d, 1)
            IN /\ first > second => engineResult.code[d] = Dimensions[d][1]
               /\ first < second => engineResult.code[d] = Dimensions[d][2]
               /\ first = second => engineResult.code[d] = Dimensions[d][1]

C17_Witness ==
    /\ engineResult.kind = "final-result"
    /\ Chosen(engineResult.answers, 1, 1) = 1
    /\ Chosen(engineResult.answers, 4, 0) = Chosen(engineResult.answers, 4, 1)
    /\ engineResult.code[1] = "I"
    /\ engineResult.code[4] = "J"

\* the entry of user u in a store, NoEntry when it has none
NoEntry == [is_dummy |-> FALSE, current_question |-> -1, scores |-> ZeroScores]
Entry(store, u) == IF u \in DOMAIN store THEN store[u] ELSE NoEntry

\* C18: a start, a submitAnswer or an abandon of owner A leaves the session
\* of every other owner B as it was, in whatever order the operations of the
\* owners are taken.
C18_OtherOwnersUntouched ==
    [][\A a \in Users :
          \/ \A b \in Users \ {a} : Entry(sessions', b) = Entry(sessions, b)
          \/ ~ \/ \E d \in BOOLEAN : Start(a, d)
               \/ \E opt \in (0..(NumOptions - 1)) \cup InvalidOptions : Click(a, opt)
               \/ Drop(a)]_vars

C18_Witness ==
    /\ \E a, b \in DOMAIN sessions :
          /\ a # b
          /\ engineResult.owner = a
          /\ engineResult.kind = "next-question"
          /\ sessions[a].current_question > 0
          /\ sessions[b].current_question = 0

\* C19: submitAnswer for an owner without a session returns NoActiveSession,
\* creates no session and leaves the store as it was.
C19_NoSessionMutatesNothing ==
    [][\A u \in Users, opt \in (0..(NumOptions - 1)) \cup InvalidOptions :
          (~HasActiveSession(u) /\ Click(u, opt))
              => /\ engineResult'.kind = "NoActiveSession"
                 /\ engineResult'.owner = u
                 /\ u \notin DOMAIN sessions'
                 /\ sessions' = sessions]_vars

C19_Witness ==
    /\ engineResult.kind = "NoActiveSession"
    /\ engineResult.owner \notin DOMAIN sessions
    /\ sessions # << >>

C21_ProfileNotFoundStillRemoves ==
    /\ [][\A u \in Users, opt \in 0..(NumOptions - 1) :
            (/\ HasActiveSession(u)
             /\ Len(answered[u]) + 1 = QuestionCount(sessions[u].is_dummy)
             /\ FinalCode(Advance(sessions[u], opt).scores) \in unprofiled
             /\ Click(u, opt))
                => /\ engineResult'.kind = "final-result"
                   /\ engineResult'.profile = "ProfileNotFound"
                   /\ u \notin DOMAIN sessions'
                   /\ sessions' = Remove(u)]_vars
    /\ [][\A u \in Users, d \in BOOLEAN :
            (/\ engineResult.profile = "ProfileNotFound"
             /\ engineResult.owner = u
             /\ ~HasActiveSession(u)
             /\ Start(u, d))
                => /\ u \in DOMAIN sessions'
                   /\ sessions'[u] = UserSession(d)]_vars

C21_Witness ==
    /\ engineResult.kind = "final-result"
    /\ engineResult.profile = "ProfileNotFound"
    /\ engineResult.code \in unprofiled
    /\ engineResult.owner \in DOMAIN sessions
    /\ sessions[engineResult.owner].current_question = 0

\* C22: a session leaves the store only by the last answer of its owner or by
\* an abandon of its owner; a start for an owner who has a session is rejected
\* and leaves the store as it is; after an abandon the owner has no session,
\* and a start for an owner without a session creates one.
C22_LeavesOnlyByCompletionOrAbandon ==
    [][\A u \in Users :
          /\ (u \in DOMAIN sessions /\ u \notin DOMAIN sessions')
                => \/ Drop(u)
                   \/ \E opt \in 0..(NumOptions - 1) :
                         /\ Len(answered[u]) + 1 = QuestionCount(sessions[u].is_dummy)
                         /\ Click(u, opt)
          /\ \A d \in BOOLEAN :
                (HasActiveSession(u) /\ Start(u, d)) => sessions' = sessions
          /\ Drop(u) => u \notin DOMAIN sessions'
          /\ \A d \in BOOLEAN :
                (~HasActiveSession(u) /\ Start(u, d))
                    => (u \in DOMAIN sessions' /\ sessions'[u] = UserSession(d))]_vars

C22_Witness ==
    \E u, v \in DOMAIN sessions :
        /\ u # v
        /\ sessions[u].current_question > 0
        /\ engineResult.owner = v
        /\ engineResult.kind = "final-result"
        /\ sessions[v].current_question = 0

\* C23: in a successful start the session is in the store before the first
\* question is sent: from the moment the send of the first question is under
\* way, and for as long as the session has not been completed or abandoned,
\* the store holds a session for the owner; it entered the store with
\* current_question = 0, and no step of a start handler changes a stored
\* session, so it is at 0 until an answer is accepted.
C23_SessionStoredBeforeFirstQuestion ==
    /\ [](\A h \in Handlers :
            (/\ created[h]
             /\ pc[h] \in {"send_question", "followup"}
             /\ removals[h_user[h]] = checkedAt[h])
                => h_user[h] \in DOMAIN sessions)
    /\ [][\A h \in Handlers :
            (pc[h] = "create_dm" /\ pc'[h] = "send_question")
                => /\ h_user[h] \in DOMAIN sessions'
                   /\ sessions'[h_user[h]].current_question = 0]_vars
    /\ [][\A u \in DOMAIN sessions :
            (u \in DOMAIN sessions' /\ sessions'[u] # sessions[u]) => pc' = pc]_vars

C23_Witness ==
    \E h \in Handlers :
        /\ pc[h] = "followup"
        /\ reply[h] = "check_dms"
        /\ created[h]
        /\ removals[h_user[h]] = checkedAt[h]
        /\ h_user[h] \in DOMAIN sessions
        /\ sessions[h_user[h]].current_question = 0
        /\ sessions[h_user[h]].scores = ZeroScores

\* C25: when /engage is invoked by a user who is not the administrator, the
\* handler replies with the rejection, the generator is never invoked and
\* nothing is posted to the engagement channel.
C25_EngageAdminOnly ==
    (e_pc # "idle" /\ ~e_admin) =>
        /\ e_pc \in {"defer", "done"}
        /\ e_pc = "done" => e_reply = "admins_only"
        /\ e_pc = "defer" => e_reply = "none"
        /\ aiCalls = 0
        /\ source = "none"
        /\ posted = << >>

C25_Witness ==
    /\ e_pc = "done"
    /\ ~e_admin
    /\ e_reply = "admins_only"
    /\ api_key # "none"

\* the requester has no role whose name is "mentor" in any casing
NoMentorRole(user) ==
    \/ ~user.has_roles
    \/ \A i \in 1..Len(user.roles) : ~SameIgnoringCase(user.roles[i], MentorRole)

\* C24: when /prayer is invoked by a requester without a role named "mentor"
\* (in any casing), the handler replies with the rejection, never queries the
\* stored prayers and never sends a message to the requester's DM.
C24_PrayerMentorOnly ==
    (c_pc # "idle" /\ NoMentorRole(c_user)) =>
        /\ c_pc \in {"defer", "done"}
        /\ c_pc = "done" => c_reply = "mentors_only"
        /\ c_pc = "defer" => c_reply = "none"
        /\ queries = 0
        /\ messages = << >>
        /\ dm_sent = << >>

C24_Witness ==
    /\ c_pc = "done"
    /\ c_reply = "mentors_only"
    /\ c_user.has_roles
    /\ c_user.roles = << <<"m","e","n","t","o","r","s">> >>

\* the lines of a list of messages, in order
RECURSIVE Flatten(_)
Flatten(msgs) == IF msgs = << >> THEN << >> ELSE Head(msgs) \o Flatten(Tail(msgs))

\* C26: the messages built by /prayer contain the header followed by every
\* prayer line exactly once in the original order, they are sent in that
\* order, and when no prayer line is longer than 1900 characters every
\* message is at most 2000 characters long.
C26_ChunksWithinLimit ==
    messages # << >> =>
        /\ Flatten(messages) = [i \in 1..(Len(prayers) + 1) |-> i - 1]
        /\ \A k \in 1..Len(messages) : messages[k] # << >>
        /\ (\A i \in 1..Len(prayers) : LineLen(prayers, i) <= 1900)
              => \A k \in 1..Len(messages) : MsgLen(prayers, messages[k]) <= 2000
        /\ Len(dm_sent) <= Len(messages)
        /\ dm_sent = SubSeq(messages, 1, Len(dm_sent))
        /\ c_reply = "sent" => dm_sent = messages

C26_Witness ==
    /\ c_reply = "sent"
    /\ Len(messages) >= 2
    /\ dm_sent = messages
    /\ \A i \in 1..Len(prayers) : LineLen(prayers, i) <= 1900
    /\ \E k \in 1..Len(messages) :
          Len(messages[k]) >= 2 /\ MsgLen(prayers, messages[k]) > 1000

====
